---- MODULE Spec2Model ----
(***************************************************************************)
(* A model of the WSPR message generator (src/src/wspr_message.cpp).       *)
(*                                                                         *)
(* Strings are sequences of character codes (ASCII).  A uint32_t is a pair *)
(* of 16-bit limbs [hi, lo] standing for hi * 65536 + lo, so that the      *)
(* code's arithmetic modulo 2^32 is computed exactly.  An unsigned char is *)
(* an integer in 0..255.  Arrays are functions from 0.                     *)
(***************************************************************************)
EXTENDS Integers, Sequences, FiniteSets, TLC

VARIABLES
    msg,    \* msg[o]: the WsprMessage object o and the locals of its constructor call
    sync,   \* the file-scope synchronization vector (shared by all objects)
    ch,     \* argument of a call of a static helper on its own
    ret     \* <<value>> once that call has returned, <<>> before

vars == <<msg, sync, ch, ret>>

(***************************************************************************)
(* Bounds of the model.                                                    *)
(***************************************************************************)
\* Callsigns are the prefixes, of at most this many characters, of BaseCallsigns.
MaxCallLen == 7

(***************************************************************************)
(* Program constants.                                                      *)
(***************************************************************************)
MSG_SIZE == 162

SyncSeq ==
    << 1, 1, 0, 0, 0, 0, 0, 0, 1, 0, 0, 0, 1, 1, 1, 0, 0, 0,
       1, 0, 0, 1, 0, 1, 1, 1, 1, 0, 0, 0, 0, 0, 0, 0, 1, 0,
       0, 1, 0, 1, 0, 0, 0, 0, 0, 0, 1, 0, 1, 1, 0, 0, 1, 1,
       0, 1, 0, 0, 0, 1, 1, 0, 1, 0, 0, 0, 0, 1, 1, 0, 1, 0,
       1, 0, 1, 0, 1, 0, 0, 1, 0, 0, 1, 0, 1, 1, 0, 0, 0, 1,
       1, 0, 1, 0, 1, 0, 0, 0, 1, 0, 0, 0, 0, 0, 1, 0, 0, 1,
       0, 0, 1, 1, 1, 0, 1, 1, 0, 0, 1, 1, 0, 1, 0, 0, 0, 1,
       1, 1, 0, 0, 0, 0, 0, 1, 0, 1, 0, 0, 1, 1, 0, 0, 0, 0,
       0, 0, 0, 1, 1, 0, 1, 0, 1, 1, 0, 0, 0, 1, 1, 0, 0, 0 >>

\* sync[] as the array it is: indices 0..161.
SyncVector == [k \in 0..(Len(SyncSeq) - 1) |-> SyncSeq[k + 1]]

\* 0xf2d05351 and 0xe4613c47, as limbs.
POLY1 == [hi |-> 62160, lo |-> 21329]
POLY2 == [hi |-> 58465, lo |-> 15431]

\* nullptr / no buffer contents.
NULL == <<>>

(***************************************************************************)
(* Bit operations on non-negative integers.                                *)
(***************************************************************************)
\* x & y
BitAndFn[x \in Nat, y \in Nat] ==
    IF x = 0 \/ y = 0 THEN 0
    ELSE IF x = y THEN x
    ELSE (x % 2) * (y % 2) + 2 * BitAndFn[x \div 2, y \div 2]

BitAnd(x, y) == BitAndFn[x, y]

\* x | y
BitOrFn[x \in Nat, y \in Nat] ==
    IF x = 0 THEN y
    ELSE IF y = 0 THEN x
    ELSE (IF x % 2 = 1 \/ y % 2 = 1 THEN 1 ELSE 0) + 2 * BitOrFn[x \div 2, y \div 2]

BitOr(x, y) == BitOrFn[x, y]

\* 1 << n
Pow2Fn[n \in Nat] == IF n = 0 THEN 1 ELSE 2 * Pow2Fn[n - 1]

Pow2(n) == Pow2Fn[n]

(***************************************************************************)
(* uint32_t arithmetic.                                                    *)
(***************************************************************************)
U32 == [hi : 0..65535, lo : 0..65535]

U32Zero == [hi |-> 0, lo |-> 0]

\* Conversion of an int to uint32_t (value modulo 2^32).
U32FromInt(n) == [hi |-> (n \div 65536) % 65536, lo |-> n % 65536]

\* x * k + c modulo 2^32, for an int k >= 0 and an int c.
U32MulAdd(x, k, c) ==
    LET t == x.lo * k + c
    IN  [hi |-> (x.hi * k + (t \div 65536)) % 65536, lo |-> t % 65536]

\* x + y modulo 2^32.
U32Add(x, y) ==
    LET t == x.lo + y.lo
    IN  [hi |-> (x.hi + y.hi + (t \div 65536)) % 65536, lo |-> t % 65536]

\* x << 1, the bit shifted out of bit 31 being lost.
U32Shl1(x) == [hi |-> (2 * x.hi + (x.lo \div 32768)) % 65536, lo |-> (2 * x.lo) % 65536]

\* x |= 1.
U32Or1(x) == [hi |-> x.hi, lo |-> BitOr(x.lo, 1)]

\* x & y.
U32And(x, y) == [hi |-> BitAnd(x.hi, y.hi), lo |-> BitAnd(x.lo, y.lo)]

\* x - 1 modulo 2^32.
U32Dec(x) ==
    IF x.lo > 0 THEN [hi |-> x.hi, lo |-> x.lo - 1]
    ELSE [hi |-> (x.hi - 1) % 65536, lo |-> 65535]

\* x & ((uint32_t)1 << k) is non-zero, for k in 0..31.
U32TestBit(x, k) ==
    IF k < 16 THEN (x.lo \div Pow2(k)) % 2 = 1
    ELSE (x.hi \div Pow2(k - 16)) % 2 = 1

(***************************************************************************)
(* <cctype> in the "C" locale, on unsigned char values.                    *)
(***************************************************************************)
isdigit(c) == c \in 48..57
isalpha(c) == c \in 65..90 \/ c \in 97..122
toupper(c) == IF c \in 97..122 THEN c - 32 ELSE c

(***************************************************************************)
(* The static helpers of WsprMessage.                                      *)
(***************************************************************************)
\* to_upper: std::toupper on every character.
to_upper(str) == [k \in 1..Len(str) |-> toupper(str[k])]

get_character_value(c) ==
    IF isdigit(c) THEN c - 48
    ELSE IF isalpha(c) THEN 10 + toupper(c) - 65
    ELSE IF c = 32 THEN 36
    ELSE 0

\* Mutant: the swap of the pairs of bits left out.
reverse_bits_NoPairSwap(b) ==
    LET b1 == BitOr(BitAnd(b, 240) \div 16, BitAnd(b, 15) * 16) % 256
        b3 == BitOr(BitAnd(b1, 170) \div 2, BitAnd(b1, 85) * 2) % 256
    IN  b3

\* The three swaps, each result stored back into the unsigned char b.
reverse_bits(b) ==
    LET b1 == BitOr(BitAnd(b, 240) \div 16, BitAnd(b, 15) * 16) % 256
        b2 == BitOr(BitAnd(b1, 204) \div 4, BitAnd(b1, 51) * 4) % 256
        b3 == BitOr(BitAnd(b2, 170) \div 2, BitAnd(b2, 85) * 2) % 256
    IN  b3

\* The loop of calculate_parity: one set bit removed per iteration.
ParityLoop[x \in U32, even \in {0, 1}] ==
    IF x = U32Zero THEN even
    ELSE ParityLoop[U32And(x, U32Dec(x)), 1 - even]

calculate_parity(x) == ParityLoop[x, 0]

\* Mutant: the bound off by one, index 162 accepted.
OutOfRange_Above162(result) == result > 162

\* Mutant: the bound off by one, index 161 refused.
OutOfRange_From161(result) == result >= 161

\* reverse_address: the test of its while loop.
OutOfRange(result) == result > 161

\* reverse_address: reverseAddressIndex++ on an unsigned char.
NextIndex(reverseAddressIndex) == (reverseAddressIndex + 1) % 256

(***************************************************************************)
(* The steps of the constructor and of generate_wspr_symbols.              *)
(***************************************************************************)
\* Mutant: a locator longer than 4 characters is let through.
InvalidInput_ShortOnly(callsign, location) == Len(callsign) = 0 \/ Len(location) < 4

\* The validation of the constructor.
InvalidInput(callsign, location) == Len(callsign) = 0 \/ Len(location) # 4

Min(a, b) == IF a < b THEN a ELSE b

\* std::copy_n(src.begin(), n, dst + at), into a char[6].
CopyN(src, n, dst, at) ==
    [k \in DOMAIN dst |-> IF k >= at /\ k < at + n THEN src[k - at + 1] ELSE dst[k]]

\* Mutant: the two tests in the other order.
PackCallsign_ThirdFirst(callsign) ==
    LET blank == [k \in 0..5 |-> 32]
    IN  IF Len(callsign) >= 3 /\ isdigit(callsign[3])
        THEN CopyN(callsign, Min(Len(callsign), 6), blank, 0)
        ELSE IF Len(callsign) >= 2 /\ isdigit(callsign[2])
        THEN CopyN(callsign, Min(Len(callsign), 5), blank, 1)
        ELSE blank

\* char call[6], after the callsign processing.
PackCallsign(callsign) ==
    LET blank == [k \in 0..5 |-> 32]
    IN  IF Len(callsign) >= 2 /\ isdigit(callsign[2])
        THEN CopyN(callsign, Min(Len(callsign), 5), blank, 1)
        ELSE IF Len(callsign) >= 3 /\ isdigit(callsign[3])
        THEN CopyN(callsign, Min(Len(callsign), 6), blank, 0)
        ELSE blank

\* uint32_t N.
EncodeCallsign(call) ==
    LET n0 == U32FromInt(get_character_value(call[0]) * 36 + get_character_value(call[1]))
        n1 == U32MulAdd(n0, 10, get_character_value(call[2]))
        n2 == U32MulAdd(n1, 27, get_character_value(call[3]) - 10)
        n3 == U32MulAdd(n2, 27, get_character_value(call[4]) - 10)
        n4 == U32MulAdd(n3, 27, get_character_value(call[5]) - 10)
    IN  n4

\* uint32_t M1 and M.
EncodeLocation(location, power) ==
    LET M1 == U32FromInt((179 - 10 * (location[1] - 65) - (location[3] - 48)) * 180
                         + (10 * (location[2] - 65)) + (location[4] - 48))
    IN  U32MulAdd(U32Add(U32MulAdd(M1, 128, 0), U32FromInt(power)), 1, 64)

\* Mutant: the buffer zeroed instead of seeded with the sync vector.
CopySync_Zero(s) == [k \in 0..(MSG_SIZE - 1) |-> 0]

\* std::copy(std::begin(sync), std::end(sync), symbols).
CopySync(s) == [k \in 0..(MSG_SIZE - 1) |-> s[k]]

\* reg <<= 1; if (bit) reg |= 1.
ShiftIn(reg, bit) == IF bit THEN U32Or1(U32Shl1(reg)) ELSE U32Shl1(reg)

\* Mutant: the two masks exchanged.
Mask_Swapped(tap) == IF tap = 0 THEN POLY2 ELSE POLY1

\* The generator mask of the first and of the second statement of a loop body.
Mask(tap) == IF tap = 0 THEN POLY1 ELSE POLY2

\* Mutant: the parity bit shifted by two places instead of one.
Contribution_Shift2(par) == 4 * par

\* 2 * calculate_parity(...), the amount added to a symbol.
Contribution(par) == 2 * par

\* Mutant: one symbol buffer shared by all objects (a static array), so that a
\* store lands in every buffer in use.
StoreSymbol_Shared(ms, o, idx, v) ==
    [p \in DOMAIN ms |->
        IF ms[p].symbols = NULL THEN ms[p]
        ELSE [ms[p] EXCEPT !.symbols[idx] = (@ + v) % 256]]

\* symbols[idx] += v, on the buffer of object o.
StoreSymbol(ms, o, idx, v) == [ms EXCEPT ![o].symbols[idx] = (@ + v) % 256]

\* What follows a statement of a loop body: the second statement, or i-- and
\* the loop test, or the next loop.
AfterEmit(m, result, par) ==
    LET h == [m EXCEPT !.emitted = Append(@, par), !.dest = Append(@, result)]
    IN  IF m.tap = 0 THEN [h EXCEPT !.tap = 1, !.pc = "addr"]
        ELSE IF m.i - 1 >= 0 THEN [h EXCEPT !.tap = 0, !.i = m.i - 1, !.pc = "shift"]
        ELSE IF m.loop = "N" THEN [h EXCEPT !.tap = 0, !.i = 21, !.loop = "M", !.pc = "shift"]
        ELSE IF m.loop = "M" THEN [h EXCEPT !.tap = 0, !.i = 30, !.loop = "F", !.pc = "shift"]
        ELSE [h EXCEPT !.tap = 0, !.i = m.i - 1, !.pc = "done"]

(***************************************************************************)
(* State.                                                                  *)
(***************************************************************************)
Objs == {1, 2}

\* An object before its constructor runs.
Unconstructed ==
    [pc |-> "start", args |-> <<>>,
     callsign |-> <<>>, location |-> <<>>, power |-> 0,
     allocated |-> FALSE, symbols |-> NULL,
     call |-> <<>>, N |-> U32Zero, M |-> U32Zero,
     loop |-> "none", i |-> 0, tap |-> 0, reg |-> U32Zero,
     reverseAddressIndex |-> 0, result |-> 0,
     emitted |-> <<>>, dest |-> <<>>, steps |-> 0, tries |-> 0]

Init ==
    /\ msg = [o \in Objs |-> Unconstructed]
    /\ sync = SyncVector
    /\ ch = 0
    /\ ret = <<>>

(***************************************************************************)
(* Actions.                                                                *)
(***************************************************************************)
\* WsprMessage::WsprMessage, up to the call of generate_wspr_symbols.
Construct(o, callsign, location, power) ==
    /\ msg[o].pc = "start"
    /\ msg' = [msg EXCEPT ![o] =
                IF InvalidInput(callsign, location)
                THEN [@ EXCEPT !.args = <<callsign, location, power>>,
                               !.pc = "invalid_argument"]
                ELSE [@ EXCEPT !.args = <<callsign, location, power>>,
                               !.callsign = to_upper(callsign),
                               !.location = to_upper(location),
                               !.power = power,
                               !.pc = "generate"]]
    /\ UNCHANGED <<sync, ch, ret>>

\* new (std::nothrow) unsigned char[MSG_SIZE], and the test of its result.
AllocateSymbols(o) ==
    /\ msg[o].pc = "generate"
    /\ \/ msg' = [msg EXCEPT ![o].allocated = TRUE, ![o].pc = "pack"]
       \/ msg' = [msg EXCEPT ![o].pc = "runtime_error"]
    /\ UNCHANGED <<sync, ch, ret>>

\* call[], N and M.
PackFields(o) ==
    /\ msg[o].pc = "pack"
    /\ LET call == PackCallsign(msg[o].callsign)
       IN  msg' = [msg EXCEPT ![o].call = call,
                              ![o].N = EncodeCallsign(call),
                              ![o].M = EncodeLocation(msg[o].location, msg[o].power),
                              ![o].pc = "seed"]
    /\ UNCHANGED <<sync, ch, ret>>

\* The copy of sync into symbols; reg, reverseAddressIndex and the first loop's i.
SeedSync(o) ==
    /\ msg[o].pc = "seed"
    /\ msg' = [msg EXCEPT ![o].symbols = CopySync(sync),
                          ![o].reg = U32Zero,
                          ![o].reverseAddressIndex = 0,
                          ![o].loop = "N",
                          ![o].i = 27,
                          ![o].tap = 0,
                          ![o].pc = "shift"]
    /\ UNCHANGED <<sync, ch, ret>>

\* First loop: the shift of a bit of N into reg.
EncodeN(o) ==
    /\ msg[o].pc = "shift" /\ msg[o].loop = "N"
    /\ msg' = [msg EXCEPT ![o].reg = ShiftIn(@, U32TestBit(msg[o].N, msg[o].i)),
                          ![o].steps = @ + 1,
                          ![o].pc = "addr"]
    /\ UNCHANGED <<sync, ch, ret>>

\* Second loop: the shift of a bit of M into reg.
EncodeM(o) ==
    /\ msg[o].pc = "shift" /\ msg[o].loop = "M"
    /\ msg' = [msg EXCEPT ![o].reg = ShiftIn(@, U32TestBit(msg[o].M, msg[o].i)),
                          ![o].steps = @ + 1,
                          ![o].pc = "addr"]
    /\ UNCHANGED <<sync, ch, ret>>

\* Third loop: the shift alone.
Flush(o) ==
    /\ msg[o].pc = "shift" /\ msg[o].loop = "F"
    /\ msg' = [msg EXCEPT ![o].reg = ShiftIn(@, FALSE),
                          ![o].steps = @ + 1,
                          ![o].pc = "addr"]
    /\ UNCHANGED <<sync, ch, ret>>

\* One evaluation of reverse_bits(reverseAddressIndex++) in reverse_address; when
\* the result is in range, reverse_address returns it and the statement
\* symbols[...] += 2 * calculate_parity(reg & mask) completes.
Probe(o) ==
    \E result \in {reverse_bits(msg[o].reverseAddressIndex)} :
        \E probed \in {[msg EXCEPT ![o].result = result,
                                   ![o].reverseAddressIndex = NextIndex(@),
                                   ![o].tries = @ + 1]} :
            IF OutOfRange(result)
            THEN msg' = [probed EXCEPT ![o].pc = "retry"]
            ELSE \E par \in {calculate_parity(U32And(msg[o].reg, Mask(msg[o].tap)))} :
                     \E stored \in {StoreSymbol(probed, o, result, Contribution(par))} :
                         \E after \in {AfterEmit(stored[o], result, par)} :
                             msg' = [stored EXCEPT ![o] = after]

\* reverse_address: its first statement.
ReverseAddress(o) ==
    /\ msg[o].pc = "addr"
    /\ Probe(o)
    /\ UNCHANGED <<sync, ch, ret>>

\* reverse_address: an iteration of its while loop.
ReverseAddressRetry(o) ==
    /\ msg[o].pc = "retry"
    /\ OutOfRange(msg[o].result)
    /\ Probe(o)
    /\ UNCHANGED <<sync, ch, ret>>

(***************************************************************************)
(* Inputs.                                                                 *)
(***************************************************************************)
\* "AA0NTXYZ", "K1ABCDE", "aa0nt", "--00", "ABC", "G10", " 9"
BaseCallsigns ==
    { <<65, 65, 48, 78, 84, 88, 89, 90>>,
      <<75, 49, 65, 66, 67, 68, 69>>,
      <<97, 97, 48, 110, 116>>,
      <<45, 45, 48, 48>>,
      <<65, 66, 67>>,
      <<71, 49, 48>>,
      <<32, 57>> }

Callsigns == {SubSeq(b, 1, Min(n, Len(b))) : b \in BaseCallsigns, n \in 0..MaxCallLen}

\* "EM18", "rr99", "EM1", "EM188"
Locators == { <<69, 77, 49, 56>>, <<114, 114, 57, 57>>, <<69, 77, 49>>, <<69, 77, 49, 56, 56>> }

Powers == {-65, 20, 2147483647}

\* One object, built by the constructor.
Next ==
    \/ \E c \in Callsigns, l \in Locators, p \in Powers : Construct(1, c, l, p)
    \/ AllocateSymbols(1)
    \/ PackFields(1)
    \/ SeedSync(1)
    \/ EncodeN(1)
    \/ EncodeM(1)
    \/ Flush(1)
    \/ ReverseAddress(1)
    \/ ReverseAddressRetry(1)

Spec == Init /\ [][Next]_vars

\* The steps of a constructor call that has begun: the program runs them one
\* after the other, so a call that can take a step eventually takes it.
Run ==
    \/ AllocateSymbols(1)
    \/ PackFields(1)
    \/ SeedSync(1)
    \/ EncodeN(1)
    \/ EncodeM(1)
    \/ Flush(1)
    \/ ReverseAddress(1)
    \/ ReverseAddressRetry(1)

SpecLive == Init /\ [][Next]_vars /\ WF_vars(Run)

\* "AA0NT", ""
ConcCallsigns == { <<65, 65, 48, 78, 84>>, <<>> }

\* "EM18"
ConcLocators == { <<69, 77, 49, 56>> }

ConcPowers == {20}

\* Two objects, built by two threads whose steps interleave.
NextConc ==
    \E o \in Objs :
        \/ \E c \in ConcCallsigns, l \in ConcLocators, p \in ConcPowers : Construct(o, c, l, p)
        \/ AllocateSymbols(o)
        \/ PackFields(o)
        \/ SeedSync(o)
        \/ EncodeN(o)
        \/ EncodeM(o)
        \/ Flush(o)
        \/ ReverseAddress(o)
        \/ ReverseAddressRetry(o)

SpecConc == Init /\ [][NextConc]_vars

\* The values of a char, as unsigned char.
Chars == 0..255

\* A call of get_character_value on its own, on any character.
InitChar ==
    /\ msg = [o \in Objs |-> Unconstructed]
    /\ sync = SyncVector
    /\ ch \in Chars
    /\ ret = <<>>

CallGetCharacterValue ==
    /\ ret = <<>>
    /\ ret' = <<get_character_value(ch)>>
    /\ UNCHANGED <<msg, sync, ch>>

NextChar == CallGetCharacterValue

SpecChar == InitChar /\ [][NextChar]_vars

\* A call of reverse_bits on its own, on any unsigned char.
CallReverseBits ==
    /\ ret = <<>>
    /\ ret' = <<reverse_bits(ch)>>
    /\ UNCHANGED <<msg, sync, ch>>

\* A second call of reverse_bits, on what the first returned.
CallReverseBitsAgain ==
    /\ Len(ret) = 1
    /\ ret' = Append(ret, reverse_bits(ret[1]))
    /\ UNCHANGED <<msg, sync, ch>>

NextRev == CallReverseBits \/ CallReverseBitsAgain

SpecRev == InitChar /\ [][NextRev]_vars

(***************************************************************************)
(* C1.  A construction with a non-empty callsign and a locator of exactly  *)
(* 4 characters.                                                           *)
(***************************************************************************)
Constructed(m) == m.pc # "start"

ValidArgs(m) == Constructed(m) /\ Len(m.args[1]) > 0 /\ Len(m.args[2]) = 4

SymbolsWellFormed(m) ==
    /\ DOMAIN m.symbols = 0..161
    /\ Cardinality(DOMAIN m.symbols) = 162
    /\ \A k \in 0..161 : m.symbols[k] \in {0, 1, 2, 3}

\* C1 as stated: with a non-empty callsign and a 4-character locator the
\* construction never fails, whatever the power, and it leaves 162 symbols, each
\* in {0,1,2,3}.
C1_AlwaysSucceeds ==
    \A o \in Objs :
        ValidArgs(msg[o]) =>
            /\ msg[o].pc \notin {"invalid_argument", "runtime_error"}
            /\ msg[o].pc = "done" => SymbolsWellFormed(msg[o])

\* C1 as amended: with a non-empty callsign and a 4-character locator the
\* construction is never rejected as invalid input; it fails only when the
\* allocation of the symbol buffer fails (runtime error, no buffer, nothing
\* written); otherwise it leaves 162 symbols, each in {0,1,2,3}, and every
\* symbol is in {0,1,2,3} from the moment the buffer is seeded.
C1_SucceedsUnlessAllocationFails ==
    \A o \in Objs :
        ValidArgs(msg[o]) =>
            /\ msg[o].pc # "invalid_argument"
            /\ msg[o].pc = "runtime_error" =>
                   ~msg[o].allocated /\ msg[o].symbols = NULL /\ msg[o].dest = <<>>
            /\ msg[o].pc \in {"shift", "addr", "retry", "done"} => SymbolsWellFormed(msg[o])
            /\ msg[o].pc = "done" => msg[o].allocated

\* A finished encode with the largest power, whose symbols take all four values.
C1_Witness ==
    \E o \in Objs :
        /\ msg[o].pc = "done"
        /\ ValidArgs(msg[o])
        /\ msg[o].args[3] = 2147483647
        /\ {msg[o].symbols[k] : k \in 0..161} = {0, 1, 2, 3}

(***************************************************************************)
(* C2.  Invalid input.                                                     *)
(***************************************************************************)
\* C2: a construction with an empty callsign, or with a locator that is not
\* exactly 4 characters long, ends in the invalid-argument error with no buffer
\* allocated, no symbol written and no encoder step taken, whatever the power.
C2_InvalidInputRejected ==
    \A o \in Objs :
        (Constructed(msg[o]) /\ (Len(msg[o].args[1]) = 0 \/ Len(msg[o].args[2]) # 4)) =>
            /\ msg[o].pc = "invalid_argument"
            /\ ~msg[o].allocated
            /\ msg[o].symbols = NULL
            /\ msg[o].emitted = <<>>
            /\ msg[o].dest = <<>>
            /\ msg[o].steps = 0
            /\ msg[o].tries = 0

\* A rejected construction with a non-empty callsign and a locator that is too long.
C2_Witness ==
    \E o \in Objs :
        /\ msg[o].pc = "invalid_argument"
        /\ Len(msg[o].args[1]) > 0
        /\ Len(msg[o].args[2]) = 5

(***************************************************************************)
(* C3.  The destination indices.                                           *)
(***************************************************************************)
Range(seq) == {seq[k] : k \in 1..Len(seq)}

\* C3: the indices returned by reverse_address during an encode are pairwise
\* different, and over a full encode there are 162 of them, making up {0..161}.
C3_BijectiveInterleave ==
    \A o \in Objs :
        /\ Cardinality(Range(msg[o].dest)) = Len(msg[o].dest)
        /\ msg[o].pc = "done" =>
               /\ Len(msg[o].dest) = 162
               /\ Range(msg[o].dest) = 0..161

\* A finished encode whose second destination is reverse_bits(1) = 128 and whose
\* last destination came after skipped indices.
C3_Witness ==
    \E o \in Objs :
        /\ msg[o].pc = "done"
        /\ msg[o].dest[2] = 128
        /\ msg[o].tries > Len(msg[o].dest)

(***************************************************************************)
(* C4.  Two encodes on separate objects, their steps interleaved.          *)
(***************************************************************************)
\* Two constructor calls at the same point of their execution.
SamePoint(m, n) ==
    /\ m.pc = n.pc
    /\ m.loop = n.loop
    /\ m.i = n.i
    /\ m.tap = n.tap
    /\ m.reverseAddressIndex = n.reverseAddressIndex

\* C4: the shared sync vector is never written, and two constructions with the
\* same arguments hold the same symbols whenever they are at the same point of
\* their execution, in particular when both are done, however their steps
\* interleave.
C4_Deterministic ==
    /\ sync = SyncVector
    /\ \A o \in Objs, p \in Objs :
           (Constructed(msg[o]) /\ msg[o].args = msg[p].args /\ SamePoint(msg[o], msg[p])) =>
               /\ msg[o].symbols = msg[p].symbols
               /\ msg[o].emitted = msg[p].emitted
               /\ msg[o].dest = msg[p].dest

\* Both objects built from the same valid arguments and both done, with the
\* same symbols, which take all four values.
C4_Witness ==
    /\ msg[1].pc = "done"
    /\ msg[2].pc = "done"
    /\ msg[1].args = msg[2].args
    /\ msg[1].symbols = msg[2].symbols
    /\ {msg[1].symbols[k] : k \in 0..161} = {0, 1, 2, 3}

(***************************************************************************)
(* C5.  get_character_value.                                               *)
(***************************************************************************)
\* C5: get_character_value maps '0'..'9' to 0..9, 'A'..'Z' to 10..35, the space
\* to 36 and every other character to 0.
C5_CharacterMapping ==
    ret # <<>> =>
        ret[1] = IF ch \in 48..57 THEN ch - 48
                 ELSE IF ch \in 65..90 THEN ch - 55
                 ELSE IF ch = 32 THEN 36
                 ELSE 0

(***************************************************************************)
(* C6.  The packed callsign.                                               *)
(***************************************************************************)
Packed(m) == m.pc \in {"seed", "shift", "addr", "retry", "done"}

DigitAt(str, k) == Len(str) >= k + 1 /\ str[k + 1] \in 48..57

\* C6: with cs the callsign generate_wspr_symbols receives: if cs has a digit
\* at index 1, slot 0 is a space and slot k (1..5) holds cs[k-1] for k up to
\* min(length,5); else if cs has a digit at index 2, slot k (0..5) holds cs[k]
\* for k below min(length,6); else every slot is a space. Every other slot is
\* a space.
C6_CallsignSlots ==
    \A o \in Objs :
        Packed(msg[o]) =>
            LET cs == msg[o].callsign
                len == Len(cs)
                call == msg[o].call
            IN  /\ DOMAIN call = 0..5
                /\ IF DigitAt(cs, 1)
                   THEN \A k \in 0..5 :
                            call[k] = IF 1 <= k /\ k <= Min(len, 5) THEN cs[k] ELSE 32
                   ELSE IF DigitAt(cs, 2)
                   THEN \A k \in 0..5 :
                            call[k] = IF k < Min(len, 6) THEN cs[k + 1] ELSE 32
                   ELSE \A k \in 0..5 : call[k] = 32

\* "G10": digits at index 1 and at index 2, packed by the first rule.
C6_Witness ==
    \E o \in Objs :
        /\ Packed(msg[o])
        /\ msg[o].callsign = <<71, 49, 48>>
        /\ msg[o].call = [k \in 0..5 |-> IF k = 1 THEN 71 ELSE IF k = 2 THEN 49
                                          ELSE IF k = 3 THEN 48 ELSE 32]

(***************************************************************************)
(* C7.  The convolutional encoder.                                         *)
(***************************************************************************)
U32Bit(x, j) == IF U32TestBit(x, j) THEN 1 ELSE 0

\* The k-th bit fed to the encoder, k in 1..81: bits 27..0 of N, bits 21..0 of
\* M, then 31 zeros.
InputBit(m, k) ==
    IF k <= 28 THEN U32Bit(m.N, 28 - k)
    ELSE IF k <= 50 THEN U32Bit(m.M, 50 - k)
    ELSE 0

\* Bit j of a register that started at 0 and took the first k input bits, one
\* left shift each, without ever being reset.
RegBit(m, k, j) == IF k - j >= 1 THEN InputBit(m, k - j) ELSE 0

\* The number of set bits of (that register AND mask), modulo 2.
TapParity(m, k, mask) ==
    Cardinality({j \in 0..31 : RegBit(m, k, j) = 1 /\ U32Bit(mask, j) = 1}) % 2

\* The n-th emitted bit, n in 1..162: step (n+1) \div 2, first mask for odd n.
ExpectedBit(m, n) == TapParity(m, (n + 1) \div 2, IF n % 2 = 1 THEN POLY1 ELSE POLY2)

Seeded(m) == m.pc \in {"shift", "addr", "retry", "done"}

\* C7: the register is at every moment the one that started at 0 and took the
\* input bits so far (bits 27..0 of N, bits 21..0 of M, 31 zeros) with no
\* reset; the bit emitted last is the parity (set bits modulo 2) of the
\* register under 0xF2D05351 (first of a step) or 0xE4613C47 (second); a
\* finished encode took 81 steps and emitted 162 bits, all of them those
\* parities.
C7_ConvolutionalEncoder ==
    \A o \in Objs :
        Seeded(msg[o]) =>
            LET m == msg[o]
                n == Len(m.emitted)
            IN  /\ m.steps \in 0..81
                /\ \A j \in 0..31 : U32Bit(m.reg, j) = RegBit(m, m.steps, j)
                /\ n = IF m.pc = "shift" \/ m.pc = "done" THEN 2 * m.steps
                       ELSE 2 * (m.steps - 1) + m.tap
                /\ n > 0 => m.emitted[n] = ExpectedBit(m, n)
                /\ m.pc = "done" =>
                       /\ m.steps = 81
                       /\ n = 162
                       /\ \A k \in 1..162 : m.emitted[k] = ExpectedBit(m, k)

\* The first step of the second loop: the register still holds bits of N.
C7_Witness ==
    \E o \in Objs :
        /\ msg[o].pc = "addr"
        /\ msg[o].loop = "M"
        /\ msg[o].steps = 29
        /\ msg[o].reg.hi > 0
        /\ 1 \in Range(msg[o].emitted)
        /\ 0 \in Range(msg[o].emitted)

(***************************************************************************)
(* C8.  The symbols.                                                       *)
(***************************************************************************)
\* The values not exceeding 161 in reverse_bits(0), reverse_bits(1), ...,
\* reverse_bits(255), in that order.
ValidAddresses ==
    LET InRange(r) == r <= 161
    IN  SelectSeq([k \in 1..256 |-> reverse_bits(k - 1)], InRange)

\* C8: after a full encode every position i in 0..161 is the j-th valid
\* address for some j in 1..162, and its symbol is sync[i] plus twice the j-th
\* emitted bit; the low bit of every symbol is the sync entry.
C8_SymbolValues ==
    \A o \in Objs :
        msg[o].pc = "done" =>
            /\ \A i \in 0..161 :
                   \E j \in 1..162 :
                       /\ ValidAddresses[j] = i
                       /\ msg[o].symbols[i] = SyncVector[i] + 2 * msg[o].emitted[j]
            /\ \A i \in 0..161 : msg[o].symbols[i] % 2 = SyncVector[i]

\* A finished encode whose symbol at position 128 (the second valid address)
\* carries a set encoder bit.
C8_Witness ==
    \E o \in Objs :
        /\ msg[o].pc = "done"
        /\ msg[o].emitted[2] = 1
        /\ msg[o].symbols[128] = SyncVector[128] + 2

(***************************************************************************)
(* C9.  The range of N.                                                    *)
(***************************************************************************)
\* C9: for every non-empty callsign, N is below 2^28 (its high limb below 2^12).
C9_NFitsIn28Bits ==
    \A o \in Objs :
        Packed(msg[o]) => msg[o].N.hi < 4096

(***************************************************************************)
(* C10.  Termination.                                                      *)
(***************************************************************************)
Terminated(m) == m.pc \in {"done", "invalid_argument", "runtime_error"}

\* C10: every construction that begins ends (done or an error); every retry
\* loop of reverse_address is left; reverseAddressIndex never decreases, that
\* is, it never wraps from 255 to 0; and reverse_bits is evaluated at most 256
\* times in an encode, so the index domain is never exhausted.
C10_Terminates ==
    /\ [](\A o \in Objs : msg[o].tries <= 256 /\ msg[o].reverseAddressIndex \in 0..255)
    /\ [][\A o \in Objs : msg'[o].reverseAddressIndex >= msg[o].reverseAddressIndex]_vars
    /\ Constructed(msg[1]) ~> Terminated(msg[1])

\* A finished encode that probed 255 indices for its 162 addresses, the last
\* one leaving reverseAddressIndex at 255.
C10_Witness ==
    \E o \in Objs :
        /\ msg[o].pc = "done"
        /\ msg[o].tries = 255
        /\ msg[o].reverseAddressIndex = 255
        /\ Len(msg[o].dest) = 162

(***************************************************************************)
(* C11.  reverse_bits.                                                     *)
(***************************************************************************)
\* Bit i of an 8-bit value.
Bit8(x, i) == (x \div Pow2(i)) % 2

\* C11: for every x in 0..255, reverse_bits(x) is an 8-bit value whose bit i is
\* bit 7-i of x; reverse_bits(1) = 128, reverse_bits(0) = 0, and reverse_bits
\* applied to reverse_bits(x) gives x back.
C11_BitReversal ==
    /\ Len(ret) >= 1 =>
           /\ ret[1] \in 0..255
           /\ \A i \in 0..7 : Bit8(ret[1], i) = Bit8(ch, 7 - i)
           /\ ch = 1 => ret[1] = 128
           /\ ch = 0 => ret[1] = 0
    /\ Len(ret) = 2 => ret[2] = ch

\* reverse_bits(1) = 128 and reverse_bits(128) = 1.
C11_Witness == ch = 1 /\ ret = <<128, 1>>

====
